---- MODULE Spec2Model ----
(***************************************************************************)
(* OutbreakDetectionWorkflow (src/swarm/workflows/                         *)
(* outbreak_detection_workflow.py): one call of execute over a workflow    *)
(* object, its step list and the orchestrator's agent registry.            *)
(*                                                                         *)
(* Python dicts are modelled as insertion-ordered sequences of             *)
(* [key, value] entries; a condition string as its sequence of tokens, so  *)
(* that Python's substring test `needle in condition` is a test for a      *)
(* contiguous sub-sequence.                                                 *)
(***************************************************************************)
EXTENDS Integers, Sequences, FiniteSets, TLC

\* ------------------------------------------------------------------ bounds

\* Largest number of agents in the orchestrator's registry.
MaxAgents == 3

\* ------------------------------------------------------------- step lists

\* WorkflowStep.timeout's default.
DefaultTimeout == 30

\* condition = None, depends_on = None, agent_selector = None
NoCondition == <<>>
NoDepends == <<>>
NoSelector == "None"

AnomalyCondition == <<"anomaly_detected", "==", "true">>
ConsensusCondition == <<"consensus_reached", "==", "true">>
\* A condition none of the evaluator's needles occurs in.
UnknownCondition == <<"season", "==", "monsoon">>
\* A longer expression the anomaly needle occurs in.
CompoundCondition == <<"anomaly_detected", "==", "true", "and", "night">>

WorkflowStep(name, agent_action, parallel, timeout, condition, depends_on, agent_selector) ==
    [name |-> name, agent_action |-> agent_action, parallel |-> parallel,
     timeout |-> timeout, condition |-> condition, depends_on |-> depends_on,
     agent_selector |-> agent_selector]

\* The six steps OutbreakDetectionWorkflow._define_steps returns.
DefineSteps ==
    << WorkflowStep("local_analysis", "analyze_symptoms", TRUE, 30,
                    NoCondition, NoDepends, NoSelector),
       WorkflowStep("neighbor_consultation", "query_neighbors", TRUE, 60,
                    AnomalyCondition, NoDepends, NoSelector),
       WorkflowStep("collective_reasoning", "reason_about_collective_evidence", TRUE, 45,
                    NoCondition, <<"neighbor_consultation">>, NoSelector),
       WorkflowStep("consensus_proposal", "propose_consensus", FALSE, 30,
                    NoCondition, NoDepends, "max_outbreak_belief"),
       WorkflowStep("voting", "vote", TRUE, 60,
                    NoCondition, <<"consensus_proposal">>, NoSelector),
       WorkflowStep("quantum_escalation", "escalate_to_quantum", FALSE, 120,
                    ConsensusCondition, NoDepends, "proposer") >>

\* The first two steps alone: the anomaly gate.
GateSteps == SubSeq(DefineSteps, 1, 2)

\* A prerequisite that no step of the list records, alone and together with a
\* condition; then a step that only needs the first one.
DependsSteps ==
    << WorkflowStep("local_analysis", "analyze_symptoms", TRUE, DefaultTimeout,
                    NoCondition, NoDepends, NoSelector),
       WorkflowStep("review", "vote", TRUE, DefaultTimeout,
                    NoCondition, <<"local_analysis", "field_survey">>, NoSelector),
       WorkflowStep("gated_review", "query_neighbors", TRUE, DefaultTimeout,
                    AnomalyCondition, <<"field_survey">>, NoSelector),
       WorkflowStep("summary", "propose_consensus", FALSE, DefaultTimeout,
                    NoCondition, <<"local_analysis">>, NoSelector) >>

\* A forward reference, a self reference.
ForwardSteps ==
    << WorkflowStep("plan", "propose_consensus", FALSE, DefaultTimeout,
                    NoCondition, <<"audit">>, "proposer"),
       WorkflowStep("audit", "vote", TRUE, DefaultTimeout,
                    NoCondition, <<"audit">>, NoSelector),
       WorkflowStep("close", "escalate_to_quantum", FALSE, DefaultTimeout,
                    NoCondition, <<"plan">>, "proposer") >>

\* A step name used twice.
DuplicateSteps ==
    << WorkflowStep("local_analysis", "analyze_symptoms", TRUE, DefaultTimeout,
                    NoCondition, NoDepends, NoSelector),
       WorkflowStep("voting", "vote", TRUE, DefaultTimeout,
                    NoCondition, NoDepends, NoSelector),
       WorkflowStep("local_analysis", "analyze_symptoms", FALSE, DefaultTimeout,
                    NoCondition, NoDepends, "max_outbreak_belief"),
       WorkflowStep("report", "propose_consensus", FALSE, DefaultTimeout,
                    NoCondition, NoDepends, "proposer") >>

\* Single-agent steps under each selection strategy, the proposer first.
SingleSteps ==
    << WorkflowStep("escalate", "escalate_to_quantum", FALSE, 120,
                    NoCondition, NoDepends, "proposer"),
       WorkflowStep("triage", "analyze_symptoms", FALSE, DefaultTimeout,
                    NoCondition, NoDepends, NoSelector),
       WorkflowStep("propose", "propose_consensus", FALSE, DefaultTimeout,
                    NoCondition, NoDepends, "max_outbreak_belief") >>

\* A single-agent step under the default strategy first.
DefaultSingleSteps ==
    << WorkflowStep("triage", "analyze_symptoms", FALSE, DefaultTimeout,
                    NoCondition, NoDepends, NoSelector),
       WorkflowStep("voting", "vote", FALSE, DefaultTimeout,
                    NoCondition, NoDepends, NoSelector),
       WorkflowStep("escalate", "escalate_to_quantum", FALSE, 120,
                    ConsensusCondition, NoDepends, "proposer") >>

\* Conditions and an action outside the evaluator's and the dispatcher's
\* vocabulary; predicates whose step is not in the context.
OpenSteps ==
    << WorkflowStep("escalate", "escalate_to_quantum", FALSE, 120,
                    ConsensusCondition, NoDepends, "proposer"),
       WorkflowStep("neighbor_consultation", "query_neighbors", TRUE, 60,
                    AnomalyCondition, NoDepends, NoSelector),
       WorkflowStep("seasonal", "archive_report", TRUE, DefaultTimeout,
                    UnknownCondition, NoDepends, NoSelector),
       WorkflowStep("local_analysis", "analyze_symptoms", TRUE, DefaultTimeout,
                    NoCondition, NoDepends, NoSelector),
       WorkflowStep("night_watch", "archive_report", FALSE, DefaultTimeout,
                    CompoundCondition, NoDepends, "max_outbreak_belief") >>

\* The step lists a workflow object is run with.
StepLists ==
    { DefineSteps, GateSteps, <<>>, DependsSteps, ForwardSteps, DuplicateSteps,
      SingleSteps, DefaultSingleSteps, OpenSteps }

\* ------------------------------------------------------------------ agents

\* An agent is opaque to the workflow, which reads two attributes of it; attrs
\* is the set of attributes the object has (reading another one raises
\* AttributeError).  Belief scores are in tenths.
Agent(belief, risk, attrs) ==
    [outbreak_belief |-> belief, risk_level |-> risk, attrs |-> attrs]

BothAttrs == {"outbreak_belief", "risk_level"}

AgentProfiles ==
    { Agent(2, "low", BothAttrs),
      Agent(9, "critical", BothAttrs),
      Agent(9, "medium", BothAttrs),
      Agent(2, "high", BothAttrs),
      Agent(9, "low", {"outbreak_belief"}),
      Agent(2, "low", {"risk_level"}) }

\* Village ids, in the order the orchestrator registers them.
AgentId(n) == <<"village", n>>

\* orchestrator.agents: a dict id -> agent, here in its iteration order.
Registries ==
    UNION { [1..n -> AgentProfiles] : n \in 0..MaxAgents }

Items(registry) ==
    [n \in 1..Len(registry) |-> [key |-> AgentId(n), value |-> registry[n]]]

TriggerPayloads == { [village |-> "v1", cases |-> 3], [village |-> "v2"] }

\* ------------------------------------------------------------------- dicts

\* {} where a dict with string keys is expected.
EmptyDict == [k \in {} |-> k]

\* d.get(key, default) on a dict with string keys (a record)
Get(d, key, default) == IF key \in DOMAIN d THEN d[key] ELSE default

\* key in d, on an insertion-ordered dict
HasKey(d, key) == \E n \in 1..Len(d) : d[n].key = key

\* d.get(key, default) on an insertion-ordered dict
Lookup(d, key, default) ==
    IF HasKey(d, key)
    THEN d[CHOOSE n \in 1..Len(d) : d[n].key = key].value
    ELSE default

\* d[key] = value: a key already present keeps its place, a new one goes last
Store(d, key, value) ==
    IF HasKey(d, key)
    THEN [n \in 1..Len(d) |-> IF d[n].key = key THEN [key |-> key, value |-> value] ELSE d[n]]
    ELSE Append(d, [key |-> key, value |-> value])

Keys(d) == [n \in 1..Len(d) |-> d[n].key]

\* needle in text, on token sequences
Contains(text, needle) ==
    \E n \in 0..(Len(text) - Len(needle)) :
        SubSeq(text, n + 1, n + Len(needle)) = needle

\* What a call gives: a value returned, or an exception with its str().
Return(value) == [returned |-> TRUE, value |-> value]
Raise(message) == [returned |-> FALSE, message |-> message]

\* -------------------------------------------------------- _select_agents

RECURSIVE MaxFromLastWins(_, _, _)
\* MaxFrom with >= for >: among equal scores the last one wins.
MaxFromLastWins(items, n, best) ==
    IF n > Len(items) THEN best
    ELSE MaxFromLastWins(items, n + 1,
                         IF items[n].value.outbreak_belief >= best.value.outbreak_belief
                         THEN items[n] ELSE best)

RECURSIVE MaxFrom(_, _, _)
\* max(items, key=belief) from position n on, best being the greatest so far:
\* a later item replaces it only when strictly greater.
MaxFrom(items, n, best) ==
    IF n > Len(items) THEN best
    ELSE MaxFrom(items, n + 1,
                 IF items[n].value.outbreak_belief > best.value.outbreak_belief
                 THEN items[n] ELSE best)

\* max(all_agents.items(), key=lambda x: x[1].outbreak_belief)
MaxByBelief(items) ==
    IF Len(items) = 0 THEN Raise("max() arg is an empty sequence")
    ELSE IF \E n \in 1..Len(items) : "outbreak_belief" \notin items[n].value.attrs
    THEN Raise("object has no attribute 'outbreak_belief'")
    ELSE Return(MaxFrom(items, 2, items[1]))

\* SelectAgents whose max_outbreak_belief strategy selects nobody.
SelectAgentsMaxEmpty(step, hasOrchestrator, registry) ==
    IF ~hasOrchestrator THEN Return(<<>>)
    ELSE IF step.agent_selector = "max_outbreak_belief"
    THEN Return(<<>>)
    ELSE IF step.agent_selector = "proposer"
    THEN IF Len(registry) = 0 THEN Raise("list index out of range")
         ELSE Return(<<Items(registry)[1]>>)
    ELSE Return(Items(registry))

\* _select_agents(step): the selected agents as a dict, or the exception
SelectAgents(step, hasOrchestrator, registry) ==
    IF ~hasOrchestrator THEN Return(<<>>)
    ELSE IF step.agent_selector = "max_outbreak_belief"
    THEN LET m == MaxByBelief(Items(registry))
         IN  IF m.returned THEN Return(<<m.value>>) ELSE m
    ELSE IF step.agent_selector = "proposer"
    THEN IF Len(registry) = 0 THEN Raise("list index out of range")
         ELSE Return(<<Items(registry)[1]>>)
    ELSE Return(Items(registry))

\* ------------------------------------------------- _execute_agent_action

ExecuteAgentAction(agent, action) ==
    IF action = "analyze_symptoms"
    THEN IF "risk_level" \in agent.attrs
         THEN Return([action |-> action, risk_level |-> agent.risk_level])
         ELSE Raise("object has no attribute 'risk_level'")
    ELSE IF action = "query_neighbors"
    THEN Return([action |-> action, neighbors_queried |-> TRUE])
    ELSE IF action = "propose_consensus"
    THEN Return([action |-> action, proposal_made |-> TRUE])
    ELSE IF action = "vote"
    THEN Return([action |-> action, vote |-> "approve"])
    ELSE IF action = "escalate_to_quantum"
    THEN Return([action |-> action, escalated |-> TRUE])
    ELSE Return([action |-> action, status |-> "completed"])

\* --------------------------------------------------- _evaluate_condition

\* RiskAlarm without "high".
RiskAlarmCriticalOnly == {"critical"}

RiskAlarm == {"high", "critical"}

\* EvaluateCondition with voting.get("consensus_reached", True).
EvaluateConditionDefaultTrue(condition, step_results) ==
    IF Contains(condition, AnomalyCondition)
    THEN LET local_analysis == Lookup(step_results, "local_analysis", EmptyDict)
             parallel_results == Get(local_analysis, "parallel_results", <<>>)
         IN  \E n \in 1..Len(parallel_results) :
                 Get(parallel_results[n].value, "risk_level", "None") \in RiskAlarm
    ELSE IF Contains(condition, ConsensusCondition)
    THEN LET voting == Lookup(step_results, "voting", EmptyDict)
         IN  Get(voting, "consensus_reached", TRUE)
    ELSE TRUE

\* EvaluateCondition with `return False` for its last line.
EvaluateConditionFailClosed(condition, step_results) ==
    IF Contains(condition, AnomalyCondition)
    THEN LET local_analysis == Lookup(step_results, "local_analysis", EmptyDict)
             parallel_results == Get(local_analysis, "parallel_results", <<>>)
         IN  \E n \in 1..Len(parallel_results) :
                 Get(parallel_results[n].value, "risk_level", "None") \in RiskAlarm
    ELSE IF Contains(condition, ConsensusCondition)
    THEN LET voting == Lookup(step_results, "voting", EmptyDict)
         IN  Get(voting, "consensus_reached", FALSE)
    ELSE FALSE

EvaluateCondition(condition, step_results) ==
    IF Contains(condition, AnomalyCondition)
    THEN LET local_analysis == Lookup(step_results, "local_analysis", EmptyDict)
             parallel_results == Get(local_analysis, "parallel_results", <<>>)
         IN  \E n \in 1..Len(parallel_results) :
                 Get(parallel_results[n].value, "risk_level", "None") \in RiskAlarm
    ELSE IF Contains(condition, ConsensusCondition)
    THEN LET voting == Lookup(step_results, "voting", EmptyDict)
         IN  Get(voting, "consensus_reached", FALSE)
    ELSE TRUE

\* ------------------------------------------------------ _should_continue

\* result.get("error") is truthy
HasError(result) == Get(result, "error", "") # ""

\* ShouldContinue that also stops at an error entry of a parallel result.
ShouldContinueNoAgentError(step, result) ==
    /\ ~HasError(result)
    /\ \A a \in 1..Len(Get(result, "parallel_results", <<>>)) :
           ~HasError(result.parallel_results[a].value)

\* ShouldContinue that stops at a skipped step.
ShouldContinueNotSkipped(step, result) ==
    IF HasError(result) THEN FALSE
    ELSE IF Get(result, "skipped", FALSE) THEN FALSE
    ELSE TRUE

ShouldContinue(step, result) ==
    IF HasError(result) THEN FALSE
    ELSE IF Get(result, "skipped", FALSE) THEN TRUE
    ELSE TRUE

\* ---------------------------------------- _execute_step, up to the action

Skipped(why, what) == [skipped |-> TRUE, reason |-> <<why, what>>]

\* FirstMissing for which a prerequisite recorded as skipped is missing too.
FirstMissingOrSkipped(depends_on, step_results) ==
    LET Met(name) == /\ HasKey(step_results, name)
                     /\ ~Get(Lookup(step_results, name, EmptyDict), "skipped", FALSE)
    IN  IF \E n \in 1..Len(depends_on) : ~Met(depends_on[n])
        THEN CHOOSE n \in 1..Len(depends_on) :
                 /\ ~Met(depends_on[n])
                 /\ \A m \in 1..(n - 1) : Met(depends_on[m])
        ELSE 0

\* The first prerequisite, in depends_on's order, with no entry in step_results
\* (0: none).
FirstMissing(depends_on, step_results) ==
    IF \E n \in 1..Len(depends_on) : ~HasKey(step_results, depends_on[n])
    THEN CHOOSE n \in 1..Len(depends_on) :
             /\ ~HasKey(step_results, depends_on[n])
             /\ \A m \in 1..(n - 1) : HasKey(step_results, depends_on[m])
    ELSE 0

\* The condition check and the dependency check of _execute_step: the Skipped
\* outcome, or EmptyDict when the step is to run.
CheckStep(step, step_results) ==
    IF step.condition # NoCondition /\ ~EvaluateCondition(step.condition, step_results)
    THEN Skipped("Condition not met", step.condition)
    ELSE IF FirstMissing(step.depends_on, step_results) # 0
    THEN Skipped("Dependency not met",
                 step.depends_on[FirstMissing(step.depends_on, step_results)])
    ELSE EmptyDict

\* ------------------------------------------------------------------- state

VARIABLES
    steps,          \* self.steps
    orchestrator,   \* whether self.orchestrator is set
    agents,         \* self.orchestrator.agents, in iteration order
    trigger_data,   \* execute's argument
    pc,             \* "Pending", "Running" (at the head of the loop body),
                    \* "Invoking" (at an await of _execute_step), "Completed"
    i,              \* position in self.steps of the step being processed
    results,        \* execute's local results (EmptyDict before it is built)
    selected,       \* the agents dict of the step being executed
    k,              \* position in selected of the next agent to invoke
    partial,        \* _execute_step's local results of a parallel step
    calls,          \* every _execute_agent_action call so far: [step, agent]
    elapsed,        \* how long the latest call took (seconds)
    returned,       \* <<r>> once execute has returned r
    raised,         \* <<m>> once an exception with message m has left execute
                    \* (every raise of the code is inside a try of execute or
                    \* of _execute_step: Catch and Invoke are where they end)
    other           \* the frame of a second execute call on the same object,
                    \* suspended while this one runs (NoFrame: no second call)

vars == <<steps, orchestrator, agents, trigger_data, pc, i, results, selected, k,
          partial, calls, elapsed, returned, raised, other>>

\* What no step of a call writes: its arguments, the object's attributes, and
\* the locals of another call.
input == <<steps, orchestrator, agents, trigger_data, other>>

NoFrame == [f \in {} |-> f]

\* OutbreakDetectionWorkflow.name
WorkflowName == "outbreak_detection"

Init ==
    /\ steps \in StepLists
    /\ orchestrator \in BOOLEAN
    /\ agents \in Registries
    /\ trigger_data \in TriggerPayloads
    /\ pc = "Pending"
    /\ i = 0
    /\ results = EmptyDict
    /\ selected = <<>>
    /\ k = 0
    /\ partial = <<>>
    /\ calls = <<>>
    /\ elapsed = 0
    /\ returned = <<>>
    /\ raised = <<>>
    /\ other = NoFrame

\* ReturnResults that returns the step_results mapping alone.
ReturnStepResultsOnly(final) ==
    /\ results' = final
    /\ returned' = <<final.step_results>>
    /\ pc' = "Completed"

\* `return results`
ReturnResults(final) ==
    /\ results' = final
    /\ returned' = <<final>>
    /\ pc' = "Completed"

\* WithStepResult that also puts the value in place of the trigger payload.
WithStepResultClobbers(name, value) ==
    [results EXCEPT !.step_results = Store(@, name, value), !.trigger_data = value]

\* results["step_results"][step.name] = value
WithStepResult(name, value) ==
    [results EXCEPT !.step_results = Store(@, name, value)]

\* Record that takes a failed step again instead of returning.
RecordAgain(step_result) ==
    /\ selected' = <<>>
    /\ k' = 0
    /\ partial' = <<>>
    /\ raised' = raised
    /\ IF ShouldContinue(steps[i], step_result) /\ i < Len(steps)
       THEN /\ results' = WithStepResult(steps[i].name, step_result)
            /\ pc' = "Running"
            /\ i' = i + 1
            /\ returned' = returned
       ELSE IF HasError(step_result)
       THEN /\ results' = WithStepResult(steps[i].name, step_result)
            /\ pc' = "Running"
            /\ i' = i
            /\ returned' = returned
       ELSE /\ ReturnResults(WithStepResult(steps[i].name, step_result))
            /\ i' = i

\* The rest of the loop body once _execute_step has returned step_result: the
\* outcome is stored, and the loop goes on to the next step or ends.
Record(step_result) ==
    /\ selected' = <<>>
    /\ k' = 0
    /\ partial' = <<>>
    /\ raised' = raised
    /\ IF ShouldContinue(steps[i], step_result) /\ i < Len(steps)
       THEN /\ results' = WithStepResult(steps[i].name, step_result)
            /\ pc' = "Running"
            /\ i' = i + 1
            /\ returned' = returned
       ELSE /\ ReturnResults(WithStepResult(steps[i].name, step_result))
            /\ i' = i

\* Catch without the except clause: the exception leaves execute.
CatchEscapes(message) ==
    /\ raised' = <<message>>
    /\ pc' = "Completed"
    /\ UNCHANGED <<selected, k, partial, results, returned, i>>

\* The except clause of the loop body: _execute_step raised e, str(e) = message.
Catch(message) ==
    /\ selected' = <<>>
    /\ k' = 0
    /\ partial' = <<>>
    /\ raised' = raised
    /\ ReturnResults(WithStepResult(steps[i].name, [error |-> message]))
    /\ i' = i

\* execute, up to its first step.
Execute ==
    /\ pc = "Pending"
    /\ IF ~orchestrator
       THEN /\ returned' = <<[error |-> "Orchestrator not configured"]>>
            /\ pc' = "Completed"
            /\ UNCHANGED <<i, results>>
       ELSE LET fresh == [workflow |-> WorkflowName, trigger_data |-> trigger_data,
                          step_results |-> <<>>]
            IN  IF Len(steps) = 0
                THEN ReturnResults(fresh) /\ i' = i
                ELSE results' = fresh /\ pc' = "Running" /\ i' = 1 /\ returned' = returned
    /\ UNCHANGED <<input, selected, k, partial, calls, elapsed, raised>>

\* _execute_step up to its first await: the condition, the dependencies, the
\* selection; a step that invokes nothing is finished here.
BeginStep ==
    /\ pc = "Running"
    /\ LET step == steps[i]
           check == CheckStep(step, results.step_results)
           chosen == SelectAgents(step, orchestrator, agents)
       IN  IF check # EmptyDict THEN Record(check)
           ELSE IF ~chosen.returned THEN Catch(chosen.message)
           ELSE IF Len(chosen.value) = 0
           THEN IF step.parallel
                THEN Record([parallel_results |-> <<>>])
                ELSE Record([error |-> "No agent selected"])
           ELSE /\ selected' = IF step.parallel THEN chosen.value
                               ELSE <<chosen.value[1]>>
                /\ k' = 1
                /\ partial' = <<>>
                /\ pc' = "Invoking"
                /\ UNCHANGED <<i, results, returned, raised>>
    /\ UNCHANGED <<input, calls, elapsed>>

\* How long a call may take: within the step's timeout, or beyond it.
Durations(step) == {1, step.timeout + 1}

\* Invoke whose results dict is the registry itself: the result of a parallel
\* call takes the agent's place.
InvokeIntoRegistry ==
    /\ pc = "Invoking"
    /\ k <= Len(selected)
    /\ LET step == steps[i]
           outcome == ExecuteAgentAction(selected[k].value, step.agent_action)
       IN  /\ \E d \in Durations(step) : elapsed' = d
           /\ calls' = Append(calls, [step |-> i, agent |-> selected[k].key])
           /\ IF step.parallel
              THEN /\ partial' = Store(partial, selected[k].key,
                                       IF outcome.returned THEN outcome.value
                                       ELSE [error |-> outcome.message])
                   /\ agents' = [agents EXCEPT ![selected[k].key[2]] = Agent(0, "low", {})]
                   /\ k' = k + 1
                   /\ UNCHANGED <<pc, i, results, selected, returned, raised>>
              ELSE /\ agents' = agents
                   /\ IF outcome.returned THEN Record(outcome.value)
                      ELSE Catch(outcome.message)
    /\ UNCHANGED <<steps, orchestrator, trigger_data, other>>

\* One `await self._execute_agent_action(agent, step.agent_action, context)`.
Invoke ==
    /\ pc = "Invoking"
    /\ k <= Len(selected)
    /\ LET step == steps[i]
           outcome == ExecuteAgentAction(selected[k].value, step.agent_action)
       IN  /\ \E d \in Durations(step) : elapsed' = d
           /\ calls' = Append(calls, [step |-> i, agent |-> selected[k].key])
           /\ IF step.parallel
              THEN /\ partial' = Store(partial, selected[k].key,
                                       IF outcome.returned THEN outcome.value
                                       ELSE [error |-> outcome.message])
                   /\ k' = k + 1
                   /\ UNCHANGED <<pc, i, results, selected, returned, raised>>
              ELSE IF outcome.returned THEN Record(outcome.value)
                   ELSE Catch(outcome.message)
    /\ UNCHANGED input

\* Join whose outcome carries a consensus flag: whether every entry gathered
\* is an approving vote.
JoinWithConsensus ==
    /\ pc = "Invoking"
    /\ steps[i].parallel
    /\ k > Len(selected)
    /\ Record([parallel_results |-> partial,
               consensus_reached |->
                   \A a \in 1..Len(partial) :
                       Get(partial[a].value, "vote", "None") = "approve"])
    /\ UNCHANGED <<input, calls, elapsed>>

\* Join that does not wait for the loop to be over.
JoinEarly ==
    /\ pc = "Invoking"
    /\ steps[i].parallel
    /\ Record([parallel_results |-> partial])
    /\ UNCHANGED <<input, calls, elapsed>>

\* The parallel loop is over: `return {"parallel_results": results}`.
Join ==
    /\ pc = "Invoking"
    /\ steps[i].parallel
    /\ k > Len(selected)
    /\ Record([parallel_results |-> partial])
    /\ UNCHANGED <<input, calls, elapsed>>

Next == Execute \/ BeginStep \/ Invoke \/ Join

Spec == Init /\ [][Next]_vars

\* ------------------------------------------- two calls on the same object

\* Registries of the two-call specification.
MaxSharedAgents == 2

SharedRegistries ==
    UNION { [1..n -> AgentProfiles] : n \in 0..MaxSharedAgents }

\* The arguments and locals of the call that is running.
Frame ==
    [trigger_data |-> trigger_data, pc |-> pc, i |-> i, results |-> results,
     selected |-> selected, k |-> k, partial |-> partial, calls |-> calls,
     elapsed |-> elapsed, returned |-> returned, raised |-> raised]

\* A call of execute(payload) that has not started.
PendingFrame(payload) ==
    [trigger_data |-> payload, pc |-> "Pending", i |-> 0, results |-> EmptyDict,
     selected |-> <<>>, k |-> 0, partial |-> <<>>, calls |-> <<>>,
     elapsed |-> 0, returned |-> <<>>, raised |-> <<>>]

\* Two calls with different payloads; which of them starts first is the event
\* loop's choice.
TwoInit ==
    /\ steps \in StepLists
    /\ orchestrator \in BOOLEAN
    /\ agents \in SharedRegistries
    /\ trigger_data = [village |-> "v1", cases |-> 3]
    /\ pc = "Pending"
    /\ i = 0
    /\ results = EmptyDict
    /\ selected = <<>>
    /\ k = 0
    /\ partial = <<>>
    /\ calls = <<>>
    /\ elapsed = 0
    /\ returned = <<>>
    /\ raised = <<>>
    /\ other \in {PendingFrame(payload) : payload \in TriggerPayloads \ {trigger_data}}

\* The running call is at a point where the event loop can run the other one:
\* it has not started, it is at `await self._execute_step(...)`, it is at an
\* `await self._execute_agent_action(...)`, or it has returned.
AtAwait ==
    \/ pc = "Pending"
    \/ pc = "Running"
    \/ pc = "Invoking" /\ k <= Len(selected)
    \/ pc = "Completed" /\ other.pc # "Completed"

\* Switch with results an attribute of the workflow object: the call that
\* resumes finds the results of the call that was running.
SwitchSharedResults ==
    /\ other # NoFrame
    /\ AtAwait
    /\ other' = Frame
    /\ trigger_data' = other.trigger_data
    /\ pc' = other.pc
    /\ i' = other.i
    /\ results' = results
    /\ selected' = other.selected
    /\ k' = other.k
    /\ partial' = other.partial
    /\ calls' = other.calls
    /\ elapsed' = other.elapsed
    /\ returned' = other.returned
    /\ raised' = other.raised
    /\ UNCHANGED <<steps, orchestrator, agents>>

\* The event loop suspends the running call and resumes the other one: each
\* call finds its own arguments and locals; self.steps and
\* self.orchestrator.agents are the same objects for both.
Switch ==
    /\ other # NoFrame
    /\ AtAwait
    /\ other' = Frame
    /\ trigger_data' = other.trigger_data
    /\ pc' = other.pc
    /\ i' = other.i
    /\ results' = other.results
    /\ selected' = other.selected
    /\ k' = other.k
    /\ partial' = other.partial
    /\ calls' = other.calls
    /\ elapsed' = other.elapsed
    /\ returned' = other.returned
    /\ raised' = other.raised
    /\ UNCHANGED <<steps, orchestrator, agents>>

TwoNext == Execute \/ BeginStep \/ Invoke \/ Join \/ Switch

TwoSpec == TwoInit /\ [][TwoNext]_vars

\* Every await of the run comes back (an agent invocation returns or fails),
\* and the event loop goes on running the coroutine between awaits.
FairSpec == Spec /\ WF_vars(Next)

\* ------------------------------------------------------- reading the state

\* results["step_results"], empty before execute has built results
StepResults == Get(results, "step_results", <<>>)

\* The step whose outcome was stored last (0: none yet).
LastRecorded == IF pc = "Completed" /\ orchestrator THEN i ELSE i - 1

\* What step_results holds under step n's name.
Outcome(n) == Lookup(StepResults, steps[n].name, EmptyDict)

IsSkipped(result) == Get(result, "skipped", FALSE)
IsParallel(result) == "parallel_results" \in DOMAIN result

\* The agents of step n that have been invoked, in call order.
CalledIn(n) ==
    LET at == SelectSeq(calls, LAMBDA c : c.step = n)
    IN  [m \in 1..Len(at) |-> at[m].agent]

\* The run went on past step n, or step n was the last one declared.
WentOn(n) ==
    IF n < Len(steps) THEN pc \in {"Running", "Invoking"} /\ i = n + 1
    ELSE pc = "Completed" /\ raised = <<>>

\* --------------------------------------------------------------- claim C1

\* C1: halt on failure.  Whenever an entry of step_results carries an error,
\* the run is over, that entry is the last one of step_results and belongs to
\* the step the loop stopped at, no step declared after that step has an entry,
\* and no agent was invoked for a later step.
C1_HaltOnFailure ==
    \A n \in 1..Len(StepResults) :
        HasError(StepResults[n].value) =>
            /\ pc = "Completed"
            /\ n = Len(StepResults)
            /\ StepResults[n].key = steps[i].name
            /\ \A m \in (i + 1)..Len(steps) : ~HasKey(StepResults, steps[m].name)
            /\ \A c \in 1..Len(calls) : calls[c].step <= i

\* --------------------------------------------------------------- claim C2

\* The latest call of _execute_agent_action: what it gave.
LastCall == calls[Len(calls)]
LastCallOutcome ==
    ExecuteAgentAction(agents[LastCall.agent[2]], steps[LastCall.step].agent_action)

\* C2: execute never raises.  No exception leaves execute and a completed run
\* has returned a value; an exception raised by the latest agent call is the
\* error entry of that agent (parallel step) or the Failed outcome of the step
\* (single step), and an exception raised by the selection of a step that was
\* not skipped is the Failed outcome of that step.
C2_NeverRaises ==
    /\ raised = <<>>
    /\ pc = "Completed" => Len(returned) = 1
    /\ (calls # <<>> /\ ~LastCallOutcome.returned) =>
          LET failure == [error |-> LastCallOutcome.message]
          IN  IF steps[LastCall.step].parallel
              THEN /\ (pc = "Invoking" /\ i = LastCall.step) =>
                          Lookup(partial, LastCall.agent, EmptyDict) = failure
                   /\ LastRecorded = LastCall.step =>
                          Lookup(Outcome(LastCall.step).parallel_results,
                                 LastCall.agent, EmptyDict) = failure
              ELSE /\ pc = "Completed"
                   /\ Outcome(LastCall.step) = failure
                   /\ returned = <<results>>
    /\ (orchestrator /\ LastRecorded >= 1) =>
          LET chosen == SelectAgents(steps[LastRecorded], orchestrator, agents)
          IN  (~IsSkipped(Outcome(LastRecorded)) /\ ~chosen.returned) =>
                  /\ pc = "Completed"
                  /\ Outcome(LastRecorded) = [error |-> chosen.message]
                  /\ returned = <<results>>

\* A run that returned a report holding both an agent's error entry and a
\* step failed by its selection.
C2_Witness ==
    /\ pc = "Completed"
    /\ Len(returned) = 1
    /\ \E n \in 1..Len(StepResults) :
          /\ IsParallel(StepResults[n].value)
          /\ \E a \in 1..Len(StepResults[n].value.parallel_results) :
                HasError(StepResults[n].value.parallel_results[a].value)
    /\ ~SelectAgents(steps[i], orchestrator, agents).returned
    /\ HasError(Outcome(i))

\* --------------------------------------------------------------- claim C3

ReportFields == {"workflow", "trigger_data", "step_results"}

Raising(step, chosen) ==
    { a \in 1..Len(chosen) : ~ExecuteAgentAction(chosen[a].value, step.agent_action).returned }

\* C4: per-agent failure isolation.  When the step recorded last is a parallel
\* step that was executed over N selected agents of which exactly one raises,
\* its outcome is a ParallelResult with one entry per selected agent, in
\* selection order: the error entry for the raising agent and the action's
\* result for each other one; every selected agent was invoked, the ones after
\* the raising one included; the outcome carries no error and the run went on
\* to the next step.
C4_FailureIsolation ==
    (orchestrator /\ LastRecorded >= 1) =>
        LET n == LastRecorded
            step == steps[n]
            chosen == SelectAgents(step, orchestrator, agents)
        IN  ( /\ step.parallel
              /\ ~IsSkipped(Outcome(n))
              /\ chosen.returned
              /\ Cardinality(Raising(step, chosen.value)) = 1 ) =>
                /\ IsParallel(Outcome(n))
                /\ ~HasError(Outcome(n))
                /\ Len(Outcome(n).parallel_results) = Len(chosen.value)
                /\ \A a \in 1..Len(chosen.value) :
                      LET entry == Outcome(n).parallel_results[a]
                          outcome == ExecuteAgentAction(chosen.value[a].value,
                                                        step.agent_action)
                      IN  /\ entry.key = chosen.value[a].key
                          /\ IF a \in Raising(step, chosen.value)
                             THEN entry.value = [error |-> outcome.message]
                             ELSE entry.value = outcome.value /\ ~HasError(entry.value)
                /\ CalledIn(n) = [a \in 1..Len(chosen.value) |-> chosen.value[a].key]
                /\ WentOn(n)

\* A parallel step over three agents, the first of which raised, after which
\* the run is at the next step.
C4_Witness ==
    /\ orchestrator
    /\ LastRecorded >= 1
    /\ LastRecorded < Len(steps)
    /\ steps[LastRecorded].parallel
    /\ IsParallel(Outcome(LastRecorded))
    /\ Len(Outcome(LastRecorded).parallel_results) = 3
    /\ HasError(Outcome(LastRecorded).parallel_results[1].value)
    /\ ~HasError(Outcome(LastRecorded).parallel_results[2].value)
    /\ ~HasError(Outcome(LastRecorded).parallel_results[3].value)
    /\ pc = "Running"

\* --------------------------------------------------------------- claim C5

\* The loop is at step i, which has not been processed yet.
AtStep == pc = "Running"

\* After the step now at the head of the loop: no agent was invoked for it,
\* `outcome` is what step_results holds under its name, and the run went on.
SkippedWith(outcome) ==
    /\ calls' = calls
    /\ Lookup(results'.step_results, steps[i].name, EmptyDict) = outcome
    /\ IF i < Len(steps) THEN pc' = "Running" /\ i' = i + 1
       ELSE pc' = "Completed" /\ returned' = <<results'>>

\* C5: dependency skip.  Every step reached with a name of its depends_on
\* absent from step_results invokes no agent, is recorded as Skipped with the
\* reason "Dependency not met" naming an absent prerequisite, and the run
\* proceeds.
C5_DependencySkip ==
    [][ (AtStep /\ FirstMissing(steps[i].depends_on, StepResults) # 0) =>
            \E d \in 1..Len(steps[i].depends_on) :
                /\ ~HasKey(StepResults, steps[i].depends_on[d])
                /\ SkippedWith(Skipped("Dependency not met", steps[i].depends_on[d]))
      ]_vars

\* --------------------------------------------------------------- claim C6

\* C6: condition skip.  Every step reached with a condition that is present
\* and evaluates to false against the context invokes no agent, is recorded as
\* Skipped with the reason "Condition not met" and its condition, and the run
\* continues with the next step.
C6_ConditionSkip ==
    [][ ( /\ AtStep
          /\ steps[i].condition # NoCondition
          /\ ~EvaluateCondition(steps[i].condition, StepResults) ) =>
            SkippedWith(Skipped("Condition not met", steps[i].condition))
      ]_vars

\* A step skipped for its condition, which agents had been invoked before, and
\* the run at the step after it.
C6_Witness ==
    /\ pc = "Running"
    /\ LastRecorded >= 1
    /\ steps[LastRecorded].condition # NoCondition
    /\ Outcome(LastRecorded) =
           Skipped("Condition not met", steps[LastRecorded].condition)
    /\ calls # <<>>
    /\ CalledIn(LastRecorded) = <<>>

\* --------------------------------------------------------------- claim C7

\* Some agent's entry in local_analysis's parallel results has risk level high
\* or critical.
AnomalyReported ==
    LET entries == Get(Lookup(StepResults, "local_analysis", EmptyDict),
                       "parallel_results", <<>>)
    IN  \E a \in 1..Len(entries) :
            /\ "risk_level" \in DOMAIN entries[a].value
            /\ entries[a].value.risk_level \in {"high", "critical"}

\* Some registered agent that has a risk level has the level high or critical.
AnomalousAgent ==
    \E a \in 1..Len(agents) :
        /\ "risk_level" \in agents[a].attrs
        /\ agents[a].risk_level \in {"high", "critical"}

\* C7: the anomaly gate.  In the workflow [local_analysis, neighbor_consultation]
\* neighbor_consultation is executed (its agents are invoked, its outcome is a
\* ParallelResult over all agents) if and only if some agent's entry of
\* local_analysis has risk level high or critical, which is so exactly when an
\* agent has such a level; otherwise its outcome is Skipped, condition not met,
\* and no agent is invoked for it.
C7_AnomalyGate ==
    (steps = GateSteps /\ orchestrator) =>
        /\ (pc = "Invoking" /\ i = 2) => AnomalyReported
        /\ HasKey(StepResults, "local_analysis") => (AnomalyReported <=> AnomalousAgent)
        /\ HasKey(StepResults, "neighbor_consultation") =>
              LET outcome == Lookup(StepResults, "neighbor_consultation", EmptyDict)
              IN  IF AnomalyReported
                  THEN /\ ~IsSkipped(outcome)
                       /\ IsParallel(outcome)
                       /\ Keys(outcome.parallel_results) = Keys(Items(agents))
                       /\ CalledIn(2) = Keys(Items(agents))
                  ELSE /\ outcome = Skipped("Condition not met", AnomalyCondition)
                       /\ CalledIn(2) = <<>>

\* Two agents, one of them critical, and neighbor_consultation executed.
C7_Witness ==
    /\ steps = GateSteps
    /\ Len(agents) = 2
    /\ agents[1].risk_level = "low" /\ "risk_level" \in agents[1].attrs
    /\ agents[2].risk_level = "critical" /\ "risk_level" \in agents[2].attrs
    /\ pc = "Completed"
    /\ IsParallel(Lookup(StepResults, "neighbor_consultation", EmptyDict))
    /\ Len(Lookup(StepResults, "neighbor_consultation", EmptyDict).parallel_results) = 2

\* --------------------------------------------------------------- claim C8

\* C8: empty-registry selection.  Over an empty registry the selection of
\* every step returns an empty mapping and does not raise, and a non-parallel
\* step that was not skipped is recorded as Failed with "No agent selected".
C8_EmptyRegistrySelection ==
    (orchestrator /\ agents = <<>> /\ LastRecorded >= 1) =>
        LET n == LastRecorded
        IN  ~IsSkipped(Outcome(n)) =>
                /\ SelectAgents(steps[n], orchestrator, agents) = Return(<<>>)
                /\ ~steps[n].parallel => Outcome(n) = [error |-> "No agent selected"]

\* --------------------------------------------------------------- claim C9

\* Every registered agent has a belief score.
AllBeliefs == \A a \in 1..Len(agents) : "outbreak_belief" \in agents[a].attrs

\* The first agent, in registry order, whose belief score no agent exceeds.
FirstGreatest ==
    CHOOSE a \in 1..Len(agents) :
        /\ \A b \in 1..Len(agents) : agents[b].outbreak_belief <= agents[a].outbreak_belief
        /\ \A b \in 1..(a - 1) : agents[b].outbreak_belief < agents[a].outbreak_belief

\* C9: max-belief selection.  Over a non-empty registry of agents with belief
\* scores the selection of a max_outbreak_belief step returns exactly one
\* agent: the first one in registry order among those with the greatest score;
\* the step's action is invoked on that agent and on no other.
C9_MaxBeliefFirst ==
    (orchestrator /\ agents # <<>> /\ AllBeliefs) =>
        \A n \in 1..Len(steps) :
            steps[n].agent_selector = "max_outbreak_belief" =>
                /\ SelectAgents(steps[n], orchestrator, agents) =
                       Return(<<[key |-> AgentId(FirstGreatest),
                                 value |-> agents[FirstGreatest]]>>)
                /\ (pc = "Invoking" /\ i = n) =>
                       selected = <<Items(agents)[FirstGreatest]>>
                /\ \A c \in 1..Len(CalledIn(n)) : CalledIn(n)[c] = AgentId(FirstGreatest)

\* Belief scores 0.2, 0.9, 0.9 in registry order: the second agent is the one
\* about to be invoked.
C9_Witness ==
    /\ Len(agents) = 3
    /\ AllBeliefs
    /\ agents[1].outbreak_belief = 2
    /\ agents[2].outbreak_belief = 9
    /\ agents[3].outbreak_belief = 9
    /\ pc = "Invoking"
    /\ steps[i].agent_selector = "max_outbreak_belief"
    /\ Keys(selected) = <<AgentId(2)>>

\* -------------------------------------------------------------- claim C10

\* No call is made twice for the same step and agent.
NoRetry == \A a, b \in 1..Len(calls) : calls[a] = calls[b] => a = b

\* The parallel step recorded last has an entry for each agent selected for
\* it, and each of them was invoked: none was cancelled.
SiblingsComplete ==
    (orchestrator /\ LastRecorded >= 1 /\ IsParallel(Outcome(LastRecorded))) =>
        /\ Keys(Outcome(LastRecorded).parallel_results) =
               Keys(SelectAgents(steps[LastRecorded], orchestrator, agents).value)
        /\ CalledIn(LastRecorded) = Keys(Outcome(LastRecorded).parallel_results)

\* The latest call took longer than its step's timeout.
Overran == calls # <<>> /\ elapsed > steps[LastCall.step].timeout

\* C10: per-invocation timeout.  A call that took longer than its step's
\* timeout is recorded as an error entry of its agent (parallel step) or as the
\* Failed outcome of its step (single step); the other agents of the step are
\* invoked all the same, and no call is made a second time.
C10_TimeoutBounded ==
    /\ NoRetry
    /\ SiblingsComplete
    /\ Overran =>
          IF steps[LastCall.step].parallel
          THEN /\ (pc = "Invoking" /\ i = LastCall.step) =>
                      HasError(Lookup(partial, LastCall.agent, EmptyDict))
               /\ LastRecorded = LastCall.step =>
                      HasError(Lookup(Outcome(LastCall.step).parallel_results,
                                      LastCall.agent, EmptyDict))
          ELSE LastRecorded = LastCall.step => HasError(Outcome(LastCall.step))

\* -------------------------------------------------------------- claim C11

\* The predicates the evaluator knows.
RecognisedPredicates == {AnomalyCondition, ConsensusCondition}

\* Step n was not skipped for its condition: it has no outcome yet, or another
\* outcome than Skipped, condition not met.
NotSkippedForCondition(n) ==
    LastRecorded = n =>
        Outcome(n) # Skipped("Condition not met", steps[n].condition)

\* The run has come to step n, or is past it.
Reached(n) == orchestrator /\ pc # "Pending" /\ i >= n

StepNames(list) == [n \in 1..Len(list) |-> list[n].name]

UniqueNames(list) ==
    \A m, n \in 1..Len(list) : list[m].name = list[n].name => m = n

\* Every depends_on name is the name of a step declared strictly earlier.
BackwardDepends(list) ==
    \A n \in 1..Len(list) : \A d \in 1..Len(list[n].depends_on) :
        \E m \in 1..(n - 1) : list[m].name = list[n].depends_on[d]

ValidStepList(list) == UniqueNames(list) /\ BackwardDepends(list)

\* C12: construction-time validation.  A workflow whose step list has a
\* duplicate step name, or a depends_on name not declared strictly earlier, is
\* never executed: none of its steps is processed, no agent is invoked for it,
\* and no report with step outcomes is returned for it.
C12_ConstructionValidation ==
    ~ValidStepList(steps) =>
        /\ StepResults = <<>>
        /\ calls = <<>>
        /\ \A r \in 1..Len(returned) : "step_results" \notin DOMAIN returned[r]

\* -------------------------------------------------------------- claim C13

\* The payload held by a report (a report without one holds none).
PayloadOf(report) == Get(report, "trigger_data", EmptyDict)

BothUnmet ==
    /\ AtStep
    /\ FirstMissing(steps[i].depends_on, StepResults) # 0
    /\ steps[i].condition # NoCondition
    /\ ~EvaluateCondition(steps[i].condition, StepResults)

\* The reason recorded for the step now at the head of the loop.
ReasonRecorded == Lookup(results'.step_results, steps[i].name, EmptyDict).reason

\* C14: check order within a step.  A step reached with both an unmet
\* dependency and a condition that evaluates to false is recorded as Skipped
\* with the reason "Dependency not met" and the absent prerequisite, not with
\* "Condition not met" and its condition.
C14_DependencyCheckedFirst ==
    [][ BothUnmet =>
            /\ IsSkipped(Lookup(results'.step_results, steps[i].name, EmptyDict))
            /\ ReasonRecorded[1] = "Dependency not met"
            /\ ReasonRecorded[2] \in {steps[i].depends_on[d] : d \in 1..Len(steps[i].depends_on)}
            /\ ReasonRecorded # <<"Condition not met", steps[i].condition>>
      ]_vars

\* -------------------------------------------------------------- claim C15

\* The keys of step_results, in insertion order, are the names of the first
\* declared steps.
KeysArePrefix ==
    /\ Len(StepResults) <= Len(steps)
    /\ Keys(StepResults) = SubSeq(StepNames(steps), 1, Len(StepResults))

\* C15: declared order and write-once context.  At every point of a run the
\* keys of step_results in insertion order are a prefix of the declared step
\* sequence, and every step of the run leaves the entries already recorded as
\* they are, adding at most one entry after them.
C15_DeclaredOrderWriteOnce ==
    [][ /\ KeysArePrefix'
        /\ Len(StepResults') \in {Len(StepResults), Len(StepResults) + 1}
        /\ \A n \in 1..Len(StepResults) : StepResults'[n] = StepResults[n]
      ]_vars

\* -------------------------------------------------------------- claim C16

\* C16: fan-out/fan-in barrier.  When the outcome of a parallel step is
\* recorded, every selected agent has been invoked for that step and has its
\* result or its error in the outcome, in selection order; and whenever a
\* step's checks are about to begin, or the run is over, no invocation is
\* under way and every invocation made belongs to an earlier step (to a step
\* of the run, once it is over).
C16_Barrier ==
    [][ /\ (pc = "Invoking" /\ steps[i].parallel /\ StepResults' # StepResults) =>
              /\ k = Len(selected) + 1
              /\ CalledIn(i) = Keys(selected)
              /\ Keys(partial) = Keys(selected)
              /\ Lookup(StepResults', steps[i].name, EmptyDict)
                     = [parallel_results |-> partial]
              /\ calls' = calls
        /\ pc' = "Running" =>
              /\ selected' = <<>> /\ partial' = <<>>
              /\ \A c \in 1..Len(calls') : calls'[c].step < i'
        /\ pc' = "Completed" =>
              /\ selected' = <<>> /\ partial' = <<>>
              /\ \A c \in 1..Len(calls') : calls'[c].step <= i'
      ]_vars

\* The next step is about to be checked after a parallel step whose three
\* agents were all invoked, one of them failing.
C16_Witness ==
    /\ pc = "Running"
    /\ i >= 2
    /\ steps[i - 1].parallel
    /\ IsParallel(Outcome(i - 1))
    /\ Len(Outcome(i - 1).parallel_results) = MaxAgents
    /\ Len(CalledIn(i - 1)) = MaxAgents
    /\ \E a \in 1..MaxAgents : HasError(Outcome(i - 1).parallel_results[a].value)

\* -------------------------------------------------------------- claim C17

\* The step a recognised predicate inspects.
InspectedStep(predicate) ==
    IF predicate = AnomalyCondition THEN "local_analysis" ELSE "voting"

\* The head step's condition is `predicate` and the step it inspects has no
\* recorded outcome.
AbsentAt(predicate) ==
    /\ AtStep
    /\ steps[i].condition = predicate
    /\ ~HasKey(StepResults, InspectedStep(predicate))

\* C17: absent-step predicates are false.  In every context of a run in which
\* the step a recognised predicate inspects has no recorded outcome the
\* predicate evaluates to false; a step reached in such a context with that
\* predicate for its condition is recorded as Skipped for its condition, and
\* nothing is raised.
C17_AbsentStepFalse ==
    /\ [](\A predicate \in RecognisedPredicates :
              ~HasKey(StepResults, InspectedStep(predicate)) =>
                  EvaluateCondition(predicate, StepResults) = FALSE)
    /\ [][ \A predicate \in RecognisedPredicates :
               AbsentAt(predicate) =>
                   /\ SkippedWith(Skipped("Condition not met", predicate))
                   /\ raised' = <<>>
         ]_vars

\* Both predicates were evaluated with their steps absent: the first two steps
\* are skipped for the consensus and the anomaly condition, and neither
\* local_analysis nor voting has an outcome.
C17_Witness ==
    /\ orchestrator
    /\ pc = "Running"
    /\ Len(StepResults) = 2
    /\ StepResults[1].value = Skipped("Condition not met", ConsensusCondition)
    /\ StepResults[2].value = Skipped("Condition not met", AnomalyCondition)
    /\ ~HasKey(StepResults, "local_analysis")
    /\ ~HasKey(StepResults, "voting")
    /\ raised = <<>>

\* -------------------------------------------------------------- claim C18

\* What an agent's call leaves in the outcome of a step: its result, or its
\* error entry.
EntryOf(agent, action) ==
    LET outcome == ExecuteAgentAction(agent, action)
    IN  IF outcome.returned THEN outcome.value ELSE [error |-> outcome.message]

\* The parallel results of the first `upto` of the chosen agents.
ResultsOfFirst(chosen, upto, action) ==
    [m \in 1..upto |-> [key |-> chosen[m].key,
                        value |-> EntryOf(chosen[m].value, action)]]

\* The outcome of a step in a call that runs alone, with an orchestrator,
\* against the registry as it is.
AloneStep(step, step_results) ==
    LET check == CheckStep(step, step_results)
        chosen == SelectAgents(step, TRUE, agents)
    IN  IF check # EmptyDict THEN check
        ELSE IF ~chosen.returned THEN [error |-> chosen.message]
        ELSE IF step.parallel
        THEN [parallel_results |->
                  ResultsOfFirst(chosen.value, Len(chosen.value), step.agent_action)]
        ELSE IF Len(chosen.value) = 0 THEN [error |-> "No agent selected"]
        ELSE EntryOf(chosen.value[1].value, step.agent_action)

\* The loop of a call that runs alone, from step n with step_results as given,
\* for at most `limit` steps: the step_results it has then, how many steps it
\* has recorded, and whether the loop is over.
RECURSIVE AloneLoop(_, _, _)
AloneLoop(n, step_results, limit) ==
    IF n > Len(steps) THEN [step_results |-> step_results, recorded |-> n - 1, over |-> TRUE]
    ELSE IF n > limit THEN [step_results |-> step_results, recorded |-> n - 1, over |-> FALSE]
    ELSE LET step_result == AloneStep(steps[n], step_results)
             stored == Store(step_results, steps[n].name, step_result)
         IN  IF ShouldContinue(steps[n], step_result)
             THEN AloneLoop(n + 1, stored, limit)
             ELSE [step_results |-> stored, recorded |-> n, over |-> TRUE]

\* A call that runs alone, after at most n steps.
AloneAfter(n) == AloneLoop(1, <<>>, n)

AloneResults(step_results, payload) ==
    [workflow |-> WorkflowName, trigger_data |-> payload, step_results |-> step_results]

\* The report execute(payload) returns when it runs alone.
AloneReport(payload) ==
    IF ~orchestrator THEN [error |-> "Orchestrator not configured"]
    ELSE AloneResults(AloneAfter(Len(steps)).step_results, payload)

\* The call with frame f is where a call running alone with f's payload is
\* after as many steps: its results hold that call's outcomes and payload, the
\* agents it is invoking and the results it has gathered are that call's, and
\* what it has returned is that call's report.
RunsAsAlone(f) ==
    /\ f.pc = "Pending" => f.results = EmptyDict /\ f.returned = <<>>
    /\ f.pc \in {"Running", "Invoking"} =>
          LET alone == AloneAfter(f.i - 1)
          IN  /\ ~alone.over
              /\ alone.recorded = f.i - 1
              /\ f.results = AloneResults(alone.step_results, f.trigger_data)
              /\ f.returned = <<>>
    /\ f.pc = "Invoking" =>
          LET chosen == SelectAgents(steps[f.i], TRUE, agents).value
          IN  IF steps[f.i].parallel
              THEN /\ f.selected = chosen
                   /\ f.partial = ResultsOfFirst(chosen, f.k - 1, steps[f.i].agent_action)
              ELSE /\ f.selected = <<chosen[1]>>
                   /\ f.partial = <<>>
    /\ f.pc = "Completed" =>
          /\ f.returned = <<AloneReport(f.trigger_data)>>
          /\ orchestrator =>
                /\ f.results = f.returned[1]
                /\ f.i = AloneAfter(Len(steps)).recorded
    /\ f.raised = <<>>
    /\ \A c \in 1..Len(f.calls) : f.calls[c].step <= f.i

\* C18: run independence.  Of two execute calls on the same workflow object
\* and registry, interleaved at their await points, each is at every point
\* where it would be if it ran alone: its step_results hold the outcomes of
\* its own steps and its own payload, and it returns the report it returns
\* when run alone.
C18_RunIndependence ==
    /\ RunsAsAlone(Frame)
    /\ RunsAsAlone(other)
    /\ Frame.trigger_data # other.trigger_data

\* Both calls are in the middle of a parallel step, at different steps, each
\* with results gathered and outcomes recorded.
C18_Witness ==
    /\ pc = "Invoking"
    /\ other.pc = "Invoking"
    /\ i # other.i
    /\ Len(partial) >= 1
    /\ Len(other.partial) >= 1
    /\ Len(StepResults) >= 1
    /\ Len(other.results.step_results) >= 1

\* -------------------------------------------------------------- claim C19

\* C19: the registry and the step list are read-only during a run.  No step
\* of execute changes the agent registry or the step list, and the agents a
\* step is about to invoke are entries of the registry as it is.
C19_ReadOnly ==
    [][ /\ agents' = agents
        /\ steps' = steps
        /\ \A n \in 1..Len(selected') :
               \E m \in 1..Len(agents') : selected'[n] = Items(agents')[m]
      ]_vars

\* A finished run in which a parallel step with the default strategy invoked
\* every agent of a registry of three.
C19_Witness ==
    /\ pc = "Completed"
    /\ Len(agents) = MaxAgents
    /\ \E n \in 1..Len(steps) :
          /\ steps[n].parallel
          /\ steps[n].agent_selector = NoSelector
          /\ CalledIn(n) = Keys(Items(agents))

\* -------------------------------------------------------------- claim C20

\* Pending, then Running (a step being checked or its agents being invoked),
\* then Completed.
Phase(at) == IF at = "Pending" THEN 0 ELSE IF at = "Completed" THEN 2 ELSE 1

\* C20: termination without retry.  A run never goes back from Running to
\* Pending or from Completed to anything, every step of the run that leaves
\* the head of a step leaves it for that step's invocations, for the next
\* step or for the end, no agent is invoked twice for the same step, and the
\* call eventually returns, once.
C20_TerminatesNoRetry ==
    /\ [][ /\ Phase(pc') >= Phase(pc)
           /\ pc # "Completed"
           /\ i' \in {i, i + 1}
           /\ pc' = "Running" => i' = i + 1
           /\ Len(calls') <= Len(calls) + 1
         ]_vars
    /\ [](NoRetry /\ Len(returned) <= 1 /\ i <= Len(steps))
    /\ <>[](pc = "Completed" /\ Len(returned) = 1)

\* A run that is over after a failed invocation, with agents invoked for an
\* earlier step.
C20_Witness ==
    /\ pc = "Completed"
    /\ Len(returned) = 1
    /\ i >= 2
    /\ HasError(Outcome(i))
    /\ Len(CalledIn(i)) = 1
    /\ Len(calls) >= 3

\* -------------------------------------------------------------- claim C21

\* The actions _execute_agent_action has a branch for.
KnownActions ==
    {"analyze_symptoms", "query_neighbors", "propose_consensus", "vote",
     "escalate_to_quantum"}

\* What the latest call left behind: the agent's entry of a parallel step
\* (in the results being gathered, or in the recorded outcome), or the outcome
\* of a single step.
LastCallEntry ==
    IF steps[LastCall.step].parallel
    THEN IF pc = "Invoking" /\ i = LastCall.step
         THEN Lookup(partial, LastCall.agent, EmptyDict)
         ELSE Lookup(Get(Outcome(LastCall.step), "parallel_results", <<>>),
                     LastCall.agent, EmptyDict)
    ELSE Outcome(LastCall.step)

\* C21: an unregistered action is a soft failure.  Whenever the latest call
\* was made for an action outside the known vocabulary, what it left behind is
\* an error (the Failed outcome of a single step, the agent's error entry of a
\* parallel step), not a result with the status "completed".
C21_UnregisteredActionFails ==
    (calls # <<>> /\ steps[LastCall.step].agent_action \notin KnownActions) =>
        /\ HasError(LastCallEntry)
        /\ Get(LastCallEntry, "status", "None") # "completed"

\* -------------------------------------------------------------- claim C22

\* The outcome is Skipped for an unmet dependency.
SkippedForDependency(result) ==
    IsSkipped(result) /\ result.reason[1] = "Dependency not met"

\* C22: a prerequisite recorded as Skipped counts as met.  In every run of
\* the six-step workflow no recorded outcome is Skipped for an unmet
\* dependency; and when no agent's entry of local_analysis has risk level
\* high or critical, neighbor_consultation is recorded as Skipped for its
\* condition, the run goes on to collective_reasoning, and what is recorded
\* for collective_reasoning is a ParallelResult with an entry for every agent
\* of the registry, each of them invoked.
C22_SkippedCountsAsMet ==
    (steps = DefineSteps /\ orchestrator) =>
        /\ \A n \in 1..Len(StepResults) : ~SkippedForDependency(StepResults[n].value)
        /\ (Len(StepResults) >= 2 /\ ~AnomalyReported) =>
              /\ StepResults[2].value = Skipped("Condition not met", AnomalyCondition)
              /\ CalledIn(2) = <<>>
              /\ i >= 3
        /\ (Len(StepResults) >= 3 /\ ~AnomalyReported) =>
              /\ StepResults[3].key = "collective_reasoning"
              /\ IsParallel(StepResults[3].value)
              /\ Keys(StepResults[3].value.parallel_results) = Keys(Items(agents))
              /\ CalledIn(3) = Keys(Items(agents))

\* collective_reasoning has run on each of three agents, none of which
\* reported a high or critical risk, after neighbor_consultation was skipped.
C22_Witness ==
    /\ steps = DefineSteps
    /\ orchestrator
    /\ Len(agents) = MaxAgents
    /\ Len(StepResults) >= 3
    /\ ~AnomalyReported
    /\ IsSkipped(StepResults[2].value)
    /\ IsParallel(StepResults[3].value)
    /\ Len(StepResults[3].value.parallel_results) = MaxAgents

\* -------------------------------------------------------------- claim C23

\* C23: escalation is unreachable.  In every run of the six-step workflow,
\* when quantum_escalation is reached the outcome of voting is a
\* ParallelResult without a consensus flag and the consensus predicate
\* evaluates to false; quantum_escalation is never being invoked, its recorded
\* outcome is Skipped for its condition, and no call is ever made for the
\* escalate action.
C23_EscalationUnreachable ==
    (steps = DefineSteps /\ orchestrator) =>
        /\ (pc = "Running" /\ i = 6) =>
              /\ IsParallel(Outcome(5))
              /\ "consensus_reached" \notin DOMAIN Outcome(5)
              /\ ~EvaluateCondition(steps[6].condition, StepResults)
        /\ ~(pc = "Invoking" /\ i = 6)
        /\ Len(StepResults) = 6 =>
              StepResults[6] = [key |-> "quantum_escalation",
                                value |-> Skipped("Condition not met", ConsensusCondition)]
        /\ \A c \in 1..Len(calls) :
              /\ calls[c].step # 6
              /\ steps[calls[c].step].agent_action # "escalate_to_quantum"

\* A finished run of the six steps in which each of three agents voted to
\* approve and quantum_escalation was skipped.
C23_Witness ==
    /\ steps = DefineSteps
    /\ orchestrator
    /\ pc = "Completed"
    /\ Len(StepResults) = 6
    /\ IsSkipped(StepResults[6].value)
    /\ IsParallel(StepResults[5].value)
    /\ Len(StepResults[5].value.parallel_results) = MaxAgents
    /\ \A a \in 1..MaxAgents :
          Get(StepResults[5].value.parallel_results[a].value, "vote", "None") = "approve"

\* -------------------------------------------------------------- claim C24

\* The six-step workflow with an orchestrator whose registry is not empty and
\* holds only agents that have a belief score and a risk level.
SixStepsOnSoundRegistry ==
    /\ steps = DefineSteps
    /\ orchestrator
    /\ Len(agents) >= 1
    /\ \A a \in 1..Len(agents) : agents[a].attrs = BothAttrs

\* C24: the six-step workflow runs to its last step on a non-empty registry
\* of agents with a belief score and a risk level.  No recorded outcome is
\* Failed, the run is not over before its sixth step, and the step_results of
\* the returned report are the six declared steps in declared order.
C24_RunsToLastStep ==
    SixStepsOnSoundRegistry =>
        /\ raised = <<>>
        /\ \A n \in 1..Len(StepResults) : ~HasError(StepResults[n].value)
        /\ pc = "Completed" =>
              /\ i = Len(DefineSteps)
              /\ Len(returned) = 1
              /\ Keys(returned[1].step_results) = StepNames(DefineSteps)
              /\ \A n \in 1..Len(returned[1].step_results) :
                     ~HasError(returned[1].step_results[n].value)

\* A finished run of the six steps on three such agents, for the payload with
\* two fields, with both conditional steps skipped.
C24_Witness ==
    /\ SixStepsOnSoundRegistry
    /\ Len(agents) = MaxAgents
    /\ trigger_data = [village |-> "v1", cases |-> 3]
    /\ pc = "Completed"
    /\ Len(returned) = 1
    /\ Len(returned[1].step_results) = 6
    /\ IsSkipped(returned[1].step_results[2].value)
    /\ IsSkipped(returned[1].step_results[6].value)

====
